---- MODULE Spec2Model ----
(***************************************************************************)
(* A model of icenet2/data/loader.py: the channel planning of              *)
(* IceNetDataLoader._construct_channels, the file lookup _get_var_file,    *)
(* the sample assembly generate_sample, and the batch orchestration of     *)
(* IceNetDataLoader.generate with its worker pool and manifest.            *)
(*                                                                         *)
(* Representation.                                                         *)
(*  - A Python dict is a sequence of <<key, value>> pairs in insertion      *)
(*    order (dicts keep insertion order; assigning an existing key keeps    *)
(*    its position).                                                       *)
(*  - A variable or source name is a string without "_"; a channel name is  *)
(*    the tuple of its "_"-separated parts: "tas_abs" is <<"tas", "abs">>,  *)
(*    "siconca_linear_trend" is <<"siconca", "linear_trend">>, the metadata *)
(*    channel "cos" is <<"cos">>.                                          *)
(*  - A calendar day is an integer; a Python date value is a record         *)
(*    [kind, day] with kind "date" (datetime.date) or "datetime"            *)
(*    (datetime.datetime at midnight). Python never finds a date equal to a *)
(*    datetime, which is record equality here.                             *)
(*  - A file path is <<source, hemisphere, variable, file name>>, read as    *)
(*    <source>/<hemisphere>/<variable>/<file name>; None is the empty tuple.*)
(*  - An array over the grid is <<"zeros">>, <<"nan">> (np.full(nan)) or    *)
(*    <<"npy", path>> (np.load(path)); a weight is a fraction <<n, d>>,     *)
(*    with <<0, 0>> for not-a-number.                                      *)
(***************************************************************************)
EXTENDS Integers, Sequences, FiniteSets, TLC

\* ------------------------------------------------------------------ bounds
\* The largest lag length and trend-day count a configuration declares.
MaxLag == 2
\* The number of grid cells of an array.
NumCells == 2
\* Days per month and months per year of the model's calendar.
DaysPerMonth == 2
\* The largest forecast horizon (n_forecast_days).
MaxHorizon == 2
\* The largest output batch size.
MaxBatch == 2
\* The largest number of pool workers.
MaxWorkers == 2
\* The widest metadata channel a caller of generate_sample passes.
MaxMetaWidth == 2
\* The number of batches of one split after which the model stops following
\* the loop over batch(): above what any batch size of at least 1 yields.
MaxUnits == 4

\* ------------------------------------------------------------- Python basics
None == <<>>

\* The names the configurations use, in ascending string order.
NameOrder == <<"cos", "era5", "osisaf", "siconca", "tas">>

Rank(name) == CHOOSE i \in 1..Len(NameOrder) : NameOrder[i] = name

\* str.__lt__ on the names in use.
StrLess(a, b) == Rank(a) < Rank(b)

RECURSIVE sorted_names(_)
\* sorted(<iterable of names>): ascending string order, as a sequence.
sorted_names(S) ==
    IF S = {} THEN <<>>
    ELSE LET least == CHOOSE a \in S : \A b \in S \ {a} : StrLess(a, b)
         IN  <<least>> \o sorted_names(S \ {least})

DictKeys(d) == [i \in 1..Len(d) |-> d[i][1]]

DictHas(d, k) == \E i \in 1..Len(d) : d[i][1] = k

DictGet(d, k) == d[CHOOSE i \in 1..Len(d) : d[i][1] = k][2]

\* d[k] = v
DictSet(d, k, v) ==
    IF DictHas(d, k)
    THEN [i \in 1..Len(d) |-> IF d[i][1] = k THEN <<k, v>> ELSE d[i]]
    ELSE Append(d, <<k, v>>)

RECURSIVE SumSeq(_)
\* sum(<sequence of integers>)
SumSeq(s) == IF s = <<>> THEN 0 ELSE Head(s) + SumSeq(Tail(s))

\* ------------------------------------------------------------------- dates
\* dt.datetime.strptime(s, DATE_FORMAT): the configuration's date string for
\* day s parses to a datetime at midnight.
strptime(s) == [kind |-> "datetime", day |-> s]

\* datetime.date()
date_of(d) == [kind |-> "date", day |-> d.day]

\* d + relativedelta(days=n); the result has the type of d.
AddDays(d, n) == [kind |-> d.kind, day |-> d.day + n]

\* date.month in the model's calendar.
Month(d) == ((d.day \div DaysPerMonth) % 12) + 1

\* date.strftime(date_format) + ".npy" for the two formats in use: the
\* default DATE_FORMAT names the calendar day, "%j" the day of the year.
\* Neither keeps the type of the date.
strftime(d, date_format) ==
    IF date_format = "%j"
    THEN <<"%j", (d.day % (12 * DaysPerMonth)) + 1>>
    ELSE <<"DATE_FORMAT", d.day>>

\* ------------------------------------------------------------------- state
VARIABLES
    config,             \* self._config: the loaded configuration document
    var_lag,            \* self._var_lag
    var_lag_override,   \* self._var_lag_override (a dict)
    loss_weight_days,   \* self._loss_weight_days
    n_forecast_days,    \* self._n_forecast_days
    output_batch_size,  \* self._output_batch_size
    workers,            \* self._workers
    channels,           \* self._channels (a dict: channel name -> width)
    channel_files,      \* self._channel_files (a dict: channel name -> paths)
    meta_channels,      \* self._meta_channels (a list)
    missing_dates,      \* self._missing_dates (a list of datetimes)
    pc,                 \* where the loader's caller is
    dataset,            \* generate(): index into splits of the current split
    forecast_dates,     \* generate(): the current split's forecast dates
    i,                  \* generate().batch: the generator's cursor
    batch_number,       \* generate(): the next batch index of the split
    counts,             \* generate(): the per-split counts
    futures,            \* generate(): the submitted units of work, in order
    shards,             \* the shard files on disk (a dict: path -> records)
    manifest,           \* the dataset_config file on disk: <<>> or <<document>>
    nan_files,          \* the data files that hold a not-a-number value
    sample              \* what IceNetDataLoader.generate_sample last gave

vars == <<config, var_lag, var_lag_override, loss_weight_days, n_forecast_days,
          output_batch_size, workers, channels, channel_files, meta_channels,
          missing_dates, pc, dataset, forecast_dates, i, batch_number, counts,
          futures, shards, manifest, nan_files, sample>>

\* The constructor's arguments and the configuration: fixed once chosen.
args_vars == <<config, var_lag, var_lag_override, loss_weight_days,
               n_forecast_days, output_batch_size, workers, nan_files>>

plan_vars == <<channels, channel_files, meta_channels, missing_dates>>

gen_vars == <<dataset, forecast_dates, i, batch_number, counts, futures>>

splits == <<"train", "val", "test">>

\* self.hemisphere_str[0] of a loader built with north=True.
hemisphere_str == <<"north">>

\* --------------------------------------------------------- channel planning
RECURSIVE Flatten(_)
\* The concatenation of a sequence of sequences: a nested comprehension.
Flatten(ss) == IF ss = <<>> THEN <<>> ELSE Head(ss) \o Flatten(Tail(ss))

\* The data formats of lag channels, in the order the comprehension visits.
data_formats == <<"abs", "anom">>

RECURSIVE reverse_sorted_names(_)
\* The sources in descending order: what the planner must not use.
reverse_sorted_names(S) ==
    IF S = {} THEN <<>>
    ELSE LET last == CHOOSE a \in S : \A b \in S \ {a} : StrLess(b, a)
         IN  <<last>> \o reverse_sorted_names(S \ {last})

unsorted_identities == reverse_sorted_names(DOMAIN config.sources)

\* sorted(self._config["sources"].keys())
sorted_identities == sorted_names(DOMAIN config.sources)

\* [(identity, var, data_format) for data_format in ("abs", "anom")
\*  for identity in sorted(sources) for var in sorted(sources[identity][data_format])]
lag_vars ==
    Flatten([f \in 1..Len(data_formats) |->
      Flatten([s \in 1..Len(sorted_identities) |->
        LET identity == sorted_identities[s]
            vs == sorted_names(config.sources[identity][data_formats[f]])
        IN  [v \in 1..Len(vs) |-> <<identity, vs[v], data_formats[f]>>]])])

\* [(identity, var, linear_trend_days) for identity in sorted(sources)
\*  for var in sorted(sources[identity]["linear_trends"])]
trend_names ==
    Flatten([s \in 1..Len(sorted_identities) |->
      LET identity == sorted_identities[s]
          vs == sorted_names(config.sources[identity].linear_trends)
      IN  [v \in 1..Len(vs) |->
             <<identity, vs[v], config.sources[identity].linear_trend_days>>]])

\* [(identity, var) for identity in sorted(sources)
\*  for var in sorted(sources[identity]["meta"])]
meta_names ==
    Flatten([s \in 1..Len(sorted_identities) |->
      LET identity == sorted_identities[s]
          vs == sorted_names(config.sources[identity].meta)
      IN  [v \in 1..Len(vs) |-> <<identity, vs[v]>>]])

\* _add_channel_files on the dict cf: a channel seen again keeps its files
\* and gets the new ones appended.
add_channel_files(cf, var_name, filelist) ==
    IF DictHas(cf, var_name)
    THEN DictSet(cf, var_name, DictGet(cf, var_name) \o filelist)
    ELSE DictSet(cf, var_name, filelist)

RECURSIVE construct_lag(_, _)
\* The loop over lag_vars, from the loader state st.
construct_lag(st, todo) ==
    IF todo = <<>> THEN st
    ELSE LET identity == Head(todo)[1]
             var_name == Head(todo)[2]
             var_prefix == <<var_name, Head(todo)[3]>>
             lag == IF ~DictHas(var_lag_override, var_name)
                    THEN var_lag
                    ELSE DictGet(var_lag_override, var_name)
         IN  construct_lag(
               [st EXCEPT
                  !.channels = DictSet(@, var_prefix, lag),
                  !.channel_files = add_channel_files(
                      @, var_prefix,
                      config.sources[identity].var_files[var_name])],
               Tail(todo))

RECURSIVE construct_trend(_, _)
\* The loop over trend_names.
construct_trend(st, todo) ==
    IF todo = <<>> THEN st
    ELSE LET identity == Head(todo)[1]
             var_name == Head(todo)[2]
             var_prefix == <<var_name, "linear_trend">>
         IN  construct_trend(
               [st EXCEPT
                  !.channels = DictSet(@, var_prefix, Head(todo)[3]),
                  !.channel_files = add_channel_files(
                      @, var_prefix,
                      config.sources[identity].var_files[var_name])],
               Tail(todo))

RECURSIVE construct_meta(_, _)
\* The loop over meta_names.
construct_meta(st, todo) ==
    IF todo = <<>> THEN st
    ELSE LET identity == Head(todo)[1]
             var_name == Head(todo)[2]
         IN  construct_meta(
               [st EXCEPT
                  !.meta_channels = Append(@, <<var_name>>),
                  !.channels = DictSet(@, <<var_name>>, 1),
                  !.channel_files = add_channel_files(
                      @, <<var_name>>,
                      config.sources[identity].var_files[var_name])],
               Tail(todo))

\* _construct_channels, from the fields __init__ has just emptied.
construct_channels ==
    construct_meta(
      construct_trend(
        construct_lag([channels |-> <<>>, channel_files |-> <<>>,
                       meta_channels |-> <<>>],
                      lag_vars),
        trend_names),
      meta_names)

\* The number of channels, not the sum of their widths.
count_channels(chs) == Len(chs)

\* The property num_channels: sum(self._channels.values()).
num_channels_of(chs) == SumSeq([c \in 1..Len(chs) |-> chs[c][2]])

num_channels == num_channels_of(channels)

\* ------------------------------------------------------------ file lookup
\* source_path in potential: the path holds the fragment
\* <hemisphere>/<base variable>/<file name>.
path_contains(potential, source_path) ==
    <<potential[2], potential[3], potential[4]>> = source_path

\* A lookup that returns the last match: what _get_var_file must not do.
get_last_var_file(var_name, date, date_format) ==
    LET filename == strftime(date, date_format)
        source_path == <<hemisphere_str[1], Head(var_name), filename>>
        files == SelectSeq(DictGet(channel_files, var_name),
                           LAMBDA potential : path_contains(potential, source_path))
    IN  IF Len(files) = 0 THEN None ELSE files[Len(files)]

\* _get_var_file(var_name, date, date_format)
get_var_file(var_name, date, date_format) ==
    LET filename == strftime(date, date_format)
        source_path == <<hemisphere_str[1], Head(var_name), filename>>
        files == SelectSeq(DictGet(channel_files, var_name),
                           LAMBDA potential : path_contains(potential, source_path))
    IN  IF Len(files) = 0 THEN None ELSE files[1]

\* ------------------------------------------------------------------ arrays
Cells == 1..NumCells

\* Masks.get_active_cell_mask(month): a boolean grid, a pure function of the
\* month, with at least one active cell; the months differ in their masks.
get_active_cell_mask(month) ==
    [c \in Cells |-> c <= ((month - 1) % NumCells) + 1]

\* np.load(filename)
np_load(filename) == <<"npy", filename>>

\* np.isnan(a), as the set of cells: np.full(shape, np.nan) is not-a-number
\* everywhere, np.zeros nowhere, and a loaded file where its data is.
isnan(a, nan_in) ==
    IF a = <<"nan">> THEN Cells
    ELSE IF a = <<"zeros">> THEN {}
    ELSE IF a[2] \in nan_in THEN {NumCells} ELSE {}

RECURSIVE GCD(_, _)
GCD(a, b) == IF b = 0 THEN a ELSE GCD(b, a % b)

\* float multiplication on fractions; <<1, 0>> is inf, <<0, 0>> not-a-number.
FMul(a, b) ==
    LET n == a[1] * b[1]
        d == a[2] * b[2]
    IN  IF d = 0 THEN (IF n = 0 THEN <<0, 0>> ELSE <<1, 0>>)
        ELSE <<n \div GCD(n, d), d \div GCD(n, d)>>

\* float addition on fractions of non-negative numbers.
FAdd(a, b) ==
    IF a = <<0, 0>> \/ b = <<0, 0>> THEN <<0, 0>>
    ELSE IF a[2] = 0 \/ b[2] = 0 THEN <<1, 0>>
    ELSE LET n == a[1] * b[2] + b[1] * a[2]
             d == a[2] * b[2]
         IN  <<n \div GCD(n, d), d \div GCD(n, d)>>

RECURSIVE np_sum(_)
\* np.sum(<sequence of floats>)
np_sum(ws) == IF ws = <<>> THEN <<0, 1>> ELSE FAdd(Head(ws), np_sum(Tail(ws)))

\* f > 0; a comparison with not-a-number is False.
FPositive(f) == f # <<0, 0>> /\ f[1] > 0

\* mask.astype(dtype)
astype(mask) == [c \in Cells |-> IF mask[c] THEN <<1, 1>> ELSE <<0, 1>>]

\* sample_weight *= 33928. / np.sum(sample_weight)
rescale(sample_weight) ==
    LET total == np_sum([c \in Cells |-> sample_weight[c]])
        factor == IF total[1] = 0 THEN <<1, 0>>
                  ELSE <<33928 * total[2], total[1]>>
    IN  [c \in Cells |-> FMul(sample_weight[c], factor)]

\* np.zeros(shape, dtype) as a weight slice.
zero_weight == [c \in Cells |-> <<0, 1>>]

\* ---------------------------------------------------------- generate_sample
\* The target tensor y: one slice per lead time.
sample_output(forecast_date, H, output_files) ==
    [leadtime_idx \in 0..(H - 1) |->
       LET forecast_day == AddDays(forecast_date, leadtime_idx)
           sic_filename == IF DictHas(output_files, forecast_day)
                           THEN DictGet(output_files, forecast_day)
                           ELSE None
       IN  IF sic_filename = None THEN <<"nan">> ELSE np_load(sic_filename)]

\* A comparison of calendar days that takes a date for a datetime.
same_day_is_missing(forecast_day, missing) ==
    \E k \in 1..Len(missing) : forecast_day.day = missing[k].day

\* forecast_day == missing_date for some entry of missing_dates.
is_missing(forecast_day, missing) ==
    \E k \in 1..Len(missing) : forecast_day = missing[k]

\* The weight tensor: one slice per lead time.
sample_weights_of(forecast_date, H, lwd, masks, missing) ==
    [leadtime_idx \in 0..(H - 1) |->
       LET forecast_day == AddDays(forecast_date, leadtime_idx)
       IN  IF is_missing(forecast_day, missing)
           THEN zero_weight
           ELSE LET sample_weight == astype(DictGet(masks, forecast_day))
                IN  IF lwd THEN rescale(sample_weight) ELSE sample_weight]

RECURSIVE masked_weights(_, _, _, _)
\* sample_weights[m] for m = np.isnan(y): the weights at the not-a-number
\* positions of y, lead time by lead time.
masked_weights(y, w, H, nan_in) ==
    IF H = 0 THEN <<>>
    ELSE LET cs == isnan(y[H - 1], nan_in)
             here == [c \in 1..NumCells |->
                        IF c \in cs THEN w[H - 1][c] ELSE <<0, 1>>]
         IN  masked_weights(y, w, H - 1, nan_in) \o here

\* The check left out: nothing is ever found wrong.
no_nan_check(y, w, H, nan_in) == FALSE

\* np.sum(sample_weights[m]) > 0
nan_check_fails(y, w, H, nan_in) ==
    FPositive(np_sum(masked_weights(y, w, H, nan_in)))

RECURSIVE fill_channels(_, _, _, _)
\* The loop over channels.items() that fills the lag and trend columns, from
\* st = [x, v1, v2, error].
fill_channels(st, items, meta_chs, var_files) ==
    IF items = <<>> \/ st.error # "" THEN st
    ELSE LET var_name == Head(items)[1]
             n == Head(items)[2]
             is_meta == \E k \in 1..Len(meta_chs) : meta_chs[k] = var_name
             v1 == st.v1
             v2 == st.v2 + n
             var_filenames == DictGet(var_files, var_name)
             stacked == [k \in 1..Len(var_filenames) |->
                           IF var_filenames[k][2] # None
                           THEN np_load(var_filenames[k][2])
                           ELSE <<"zeros">>]
             size == Cardinality(DOMAIN st.x)
             room == (IF v2 < size THEN v2 ELSE size) - v1
         IN  IF is_meta
             THEN fill_channels(st, Tail(items), meta_chs, var_files)
             ELSE IF Len(stacked) = 0
                     \/ (Len(stacked) # room /\ Len(stacked) # 1)
             THEN [st EXCEPT !.error = "ValueError"]
             ELSE fill_channels(
                    [x |-> [c \in DOMAIN st.x |->
                              IF c >= v1 /\ c < v2
                              THEN stacked[IF Len(stacked) = 1 THEN 1
                                           ELSE c - v1 + 1]
                              ELSE st.x[c]],
                     v1 |-> v1 + n, v2 |-> v2, error |-> ""],
                    Tail(items), meta_chs, var_files)

RECURSIVE fill_meta_unchecked(_, _, _, _)
\* The loop over meta_channels without its test of the width: what the
\* assembly must not be.
fill_meta_unchecked(st, todo, chs, var_files) ==
    IF todo = <<>> \/ st.error # "" THEN st
    ELSE LET var_name == Head(todo)
         IN  IF DictGet(var_files, var_name) = None
             THEN [st EXCEPT !.error = "TypeError(np.load)"]
             ELSE IF st.v1 \notin DOMAIN st.x
             THEN [st EXCEPT !.error = "IndexError"]
             ELSE fill_meta_unchecked(
                    [st EXCEPT
                       !.x = [@ EXCEPT ![st.v1] =
                                np_load(DictGet(var_files, var_name))],
                       !.v1 = @ + DictGet(chs, var_name)],
                    Tail(todo), chs, var_files)

RECURSIVE fill_meta(_, _, _, _)
\* The loop over meta_channels that fills one column each.
fill_meta(st, todo, chs, var_files) ==
    IF todo = <<>> \/ st.error # "" THEN st
    ELSE LET var_name == Head(todo)
         IN  IF DictGet(chs, var_name) > 1
             THEN [st EXCEPT !.error = "RuntimeError"]
             ELSE IF DictGet(var_files, var_name) = None
             THEN [st EXCEPT !.error = "TypeError(np.load)"]
             ELSE IF st.v1 \notin DOMAIN st.x
             THEN [st EXCEPT !.error = "IndexError"]
             ELSE fill_meta(
                    [st EXCEPT
                       !.x = [@ EXCEPT ![st.v1] =
                                np_load(DictGet(var_files, var_name))],
                       !.v1 = @ + DictGet(chs, var_name)],
                    Tail(todo), chs, var_files)

\* The input tensor x, or the error its assembly raises.
input_features(chs, meta_chs, num_ch, var_files) ==
    fill_meta(
      fill_channels([x |-> [c \in 0..(num_ch - 1) |-> <<"zeros">>],
                     v1 |-> 0, v2 |-> 0, error |-> ""],
                    chs, meta_chs, var_files),
      meta_chs, chs, var_files)

\* generate_sample(forecast_date, *payload): the triple it returns, or the
\* error it raises. The call np.save(<name>.format(..., array)) passes no
\* array to np.save, which raises TypeError before the RuntimeError is built.
generate_sample(forecast_date, a, nan_in) ==
    LET H == a.n_forecast_days
        y == sample_output(forecast_date, H, a.output_files)
        w == sample_weights_of(forecast_date, H, a.loss_weight_days,
                               a.masks, a.missing_dates)
        filled == input_features(a.channels, a.meta_channels, a.num_channels,
                                 a.var_files)
    IN  IF nan_check_fails(y, w, H, nan_in)
        THEN [error |-> "TypeError(np.save)", dumped |-> FALSE,
              x |-> <<>>, y |-> <<>>, sample_weights |-> <<>>]
        ELSE IF filled.error # ""
        THEN [error |-> filled.error, dumped |-> FALSE,
              x |-> <<>>, y |-> <<>>, sample_weights |-> <<>>]
        ELSE [error |-> "", dumped |-> FALSE,
              x |-> filled.x, y |-> y, sample_weights |-> w]

\* ------------------------------------------------------ per-date payloads
\* "linear_trend" in var_name
is_trend(var_name) == \E k \in 1..Len(var_name) : var_name[k] = "linear_trend"

is_meta_channel(var_name) ==
    \E k \in 1..Len(meta_channels) : meta_channels[k] = var_name

\* The days a channel of width n needs: the lags 1..n before the date, or
\* for a trend channel the leads 1..n after it, nearest first.
input_days(var_name, n, date) ==
    IF ~is_trend(var_name)
    THEN [lag \in 1..n |-> AddDays(date, 0 - lag)]
    ELSE [lead \in 1..n |-> AddDays(date, lead)]

\* masks[forecast_day] for each day of the horizon.
masks_of(date) ==
    [day \in 1..n_forecast_days |->
       LET forecast_day == AddDays(date, day - 1)
       IN  <<forecast_day, get_active_cell_mask(Month(forecast_day))>>]

RECURSIVE meta_var_files(_, _, _)
\* for var_name in self._meta_channels: var_files[var_name] = ...
meta_var_files(var_files, todo, date) ==
    IF todo = <<>> THEN var_files
    ELSE meta_var_files(
           DictSet(var_files, Head(todo), get_var_file(Head(todo), date, "%j")),
           Tail(todo), date)

\* The keys under which an iteration order is chosen: one per distinct set
\* of input days, which a channel's role and width decide.
RoleWidths ==
    {<<is_trend(channels[c][1]), channels[c][2]>> :
       c \in {k \in 1..Len(channels) : ~is_meta_channel(channels[k][1])}}

Perms(n) ==
    {p \in [1..n -> 1..n] : \A a, b \in 1..n : a # b => p[a] # p[b]}

\* The orders in which the sets of input days may be iterated: a set of
\* dates iterates in hash order, which is any order.
set_orders ==
    {o \in [RoleWidths -> UNION {Perms(rw[2]) : rw \in RoleWidths}] :
       \A rw \in RoleWidths : o[rw] \in Perms(rw[2])}

\* The order of a list: the dict comprehension of the single-sample method
\* iterates input_days itself.
list_order == [rw \in RoleWidths |-> [k \in 1..rw[2] |-> k]]

RECURSIVE lag_var_files_short(_, _, _, _)
\* The dicts built over np.arange(1, num_channels), one date short: what
\* the packaging must not do.
lag_var_files_short(var_files, items, date, order) ==
    IF items = <<>> THEN var_files
    ELSE LET var_name == Head(items)[1]
             n == Head(items)[2]
             days == input_days(var_name, n, date)
             o == order[<<is_trend(var_name), n>>]
         IN  IF is_meta_channel(var_name)
             THEN lag_var_files_short(var_files, Tail(items), date, order)
             ELSE lag_var_files_short(
                    DictSet(var_files, var_name,
                            [k \in 1..(n - 1) |->
                               <<days[o[k]],
                                 get_var_file(var_name, days[o[k]],
                                              "DATE_FORMAT")>>]),
                    Tail(items), date, order)

RECURSIVE lag_var_files(_, _, _, _)
\* for var_name, num_channels in self._channels.items(): the date-to-file
\* dict of each lag and trend channel, its dates taken in the order given.
lag_var_files(var_files, items, date, order) ==
    IF items = <<>> THEN var_files
    ELSE LET var_name == Head(items)[1]
             n == Head(items)[2]
             days == input_days(var_name, n, date)
             o == order[<<is_trend(var_name), n>>]
         IN  IF is_meta_channel(var_name)
             THEN lag_var_files(var_files, Tail(items), date, order)
             ELSE lag_var_files(
                    DictSet(var_files, var_name,
                            [k \in 1..n |->
                               <<days[o[k]],
                                 get_var_file(var_name, days[o[k]],
                                              "DATE_FORMAT")>>]),
                    Tail(items), date, order)

\* output_files: the target file of each day of the horizon.
output_files_of(date) ==
    [leadtime_idx \in 1..n_forecast_days |->
       LET input_date == AddDays(date, leadtime_idx - 1)
       IN  <<input_date,
             get_var_file(<<"siconca", "abs">>, input_date, "DATE_FORMAT")>>]

\* The payload of one date: the arguments of generate_sample after the date.
payload(date, order) ==
    [channels |-> channels,
     loss_weight_days |-> loss_weight_days,
     masks |-> masks_of(date),
     meta_channels |-> meta_channels,
     missing_dates |-> missing_dates,
     n_forecast_days |-> n_forecast_days,
     num_channels |-> num_channels,
     var_files |-> lag_var_files(meta_var_files(<<>>, meta_channels, date),
                                 channels, date, order),
     output_files |-> output_files_of(date)]

\* ------------------------------------------------------------- the manifest
\* The "channels" entry: "{}_{}".format(channel, i) for i in range(1, s + 1).
expanded_channels(chs) ==
    Flatten([c \in 1..Len(chs) |->
               [k \in 1..chs[c][2] |-> <<chs[c][1], k>>]])

\* _write_dataset_config(counts): the document written.
write_dataset_config(cnts) ==
    [channels |-> expanded_channels(channels),
     counts |-> cnts,
     missing_dates |-> [k \in 1..Len(missing_dates) |->
                          strftime(missing_dates[k], "DATE_FORMAT")],
     n_forecast_days |-> n_forecast_days,
     num_channels |-> num_channels,
     loss_weight_days |-> loss_weight_days,
     output_batch_size |-> output_batch_size,
     var_lag |-> var_lag,
     var_lag_override |-> var_lag_override]

RECURSIVE sorted_dates(_)
\* sorted(<iterable of dates>)
sorted_dates(S) ==
    IF S = {} THEN <<>>
    ELSE LET least == CHOOSE a \in S : \A b \in S : a.day <= b.day
         IN  <<least>> \o sorted_dates(S \ {least})

\* The dates of a split as the sources list them, repeats kept: what the
\* counts must not be taken from.
forecast_dates_with_repeats(split) ==
    Flatten([k \in 1..Len(sorted_identities) |->
               sorted_dates({date_of(strptime(s)) :
                  s \in config.sources[sorted_identities[k]].dates[split]})])

\* sorted(list(set([strptime(s, DATE_FORMAT).date() for identity in sources
\*                  for s in sources[identity]["dates"][dataset]])))
forecast_dates_of(split) ==
    sorted_dates({date_of(strptime(s)) :
                    s \in UNION {config.sources[identity].dates[split] :
                                   identity \in DOMAIN config.sources}})

\* ------------------------------------------------- configuration documents
RECURSIVE ascending(_)
\* The integers of S in ascending order.
ascending(S) ==
    IF S = {} THEN <<>>
    ELSE LET least == CHOOSE a \in S : \A b \in S : a <= b
         IN  <<least>> \o ascending(S \ {least})

\* A source's file list of a variable: for each key one file per
\* hemisphere, <identity>/<hemisphere>/<var>/<file name>.
file_list(identity, var, date_format, keys) ==
    LET ks == ascending(keys)
    IN  Flatten([k \in 1..Len(ks) |->
                   <<  <<identity, "south", var, <<date_format, ks[k]>>>>,
                       <<identity, "north", var, <<date_format, ks[k]>>>>  >>])

\* One entry of config["sources"]: the variables of each kind, the file
\* lists of its variables (dated files for the days given, day-of-year files
\* for a metadata variable) and the dates of each split.
source(identity, abs, anom, trends, trend_days, meta, days, doys, dates) ==
    [abs |-> abs, anom |-> anom, linear_trends |-> trends,
     linear_trend_days |-> trend_days, meta |-> meta,
     var_files |-> [v \in abs \cup anom \cup trends \cup meta |->
                      IF v \in meta
                      THEN file_list(identity, v, "%j", doys)
                      ELSE file_list(identity, v, "DATE_FORMAT", days)],
     dates |-> dates]

\* The days around the forecast dates in use, and every day of the year.
all_days == (0 - MaxLag)..(6 + MaxLag + MaxHorizon)

all_doys == 1..8

no_dates == [el \in {"train", "val", "test"} |-> {}]

\* The fields of a fresh loader object, before __init__ has planned.
InitLoader ==
    /\ channels = <<>>
    /\ channel_files = <<>>
    /\ meta_channels = <<>>
    /\ missing_dates = <<>>
    /\ pc = "new"
    /\ dataset = 1
    /\ forecast_dates = <<>>
    /\ i = 0
    /\ batch_number = 0
    /\ counts = [el \in {"train", "val", "test"} |-> 0]
    /\ futures = <<>>
    /\ shards = <<>>
    /\ manifest = <<>>
    /\ sample = [date |-> [kind |-> "none", day |-> 0], channels |-> <<>>,
                 error |-> "", x |-> <<>>, y |-> <<>>,
                 sample_weights |-> <<>>]

\* Configurations that differ in what the two sources declare: which
\* variables are absolute, anomaly, trend and metadata, the lag and its
\* override, the trend-day counts. Every file is there; one train date.
InitPlan ==
    /\ InitLoader
    /\ \E e_abs \in SUBSET {"siconca", "tas"}, e_anom \in SUBSET {"tas"},
          e_meta \in SUBSET {"cos"},
          o_abs \in SUBSET {"siconca", "tas"},
          o_trend \in SUBSET {"siconca"}, o_meta \in SUBSET {"cos"},
          o_days \in 1..MaxLag :
         /\ "siconca" \in e_abs \cup o_abs
         /\ o_trend = {} => o_days = 1
         /\ config = [sources |->
               [identity \in {"era5", "osisaf"} |->
                  IF identity = "era5"
                  THEN source(identity, e_abs, e_anom, {}, 1, e_meta,
                              all_days, all_doys, no_dates)
                  ELSE source(identity, o_abs, {}, o_trend, o_days, o_meta,
                              all_days, all_doys,
                              [no_dates EXCEPT !["train"] = {3}])],
               missing_dates |-> <<>>]
    /\ var_lag \in 1..MaxLag
    /\ var_lag_override \in {<<>>, << <<"tas", MaxLag + 1 - var_lag>> >>}
    /\ loss_weight_days = FALSE
    /\ n_forecast_days = 1
    /\ output_batch_size = 1
    /\ workers = 1
    /\ nan_files = {}

\* The target file of a day in the source "osisaf".
target_file(day) == <<"osisaf", "north", "siconca", <<"DATE_FORMAT", day>>>>

\* Configurations of one source and one train date, day 3, that differ in
\* what sample assembly meets: a trend and a metadata channel or none, the
\* horizon, which dated files and whether the metadata files are there, the
\* global missing dates, loss-day-weighting, a target file holding a
\* not-a-number value.
InitSample ==
    /\ InitLoader
    /\ n_forecast_days \in 1..MaxHorizon
    /\ \E trends \in SUBSET {"siconca"}, meta \in SUBSET {"cos"},
          days \in {all_days, {}} \cup {all_days \ {d} : d \in 1..5},
          doys \in {all_doys, {}},
          missing \in {<<>>, <<3>>, <<4>>, <<3, 4>>} :
         /\ meta = {} => doys = all_doys
         /\ config = [sources |->
               [identity \in {"osisaf"} |->
                  source(identity, {"siconca"}, {}, trends, MaxLag, meta,
                         days, doys, [no_dates EXCEPT !["train"] = {3}])],
               missing_dates |-> missing]
         /\ nan_files \in {{}} \cup (IF days = all_days
                                     THEN {{target_file(d)} : d \in 3..4}
                                     ELSE {})
    /\ var_lag = MaxLag
    /\ var_lag_override = <<>>
    /\ loss_weight_days \in BOOLEAN
    /\ output_batch_size = 1
    /\ workers = 1

\* Configurations that differ in the dates of the splits, which the two
\* sources list with overlaps, in the batch size and the pool size, and in
\* whether the target file of day 4 is there (without it the sample of
\* day 4 cannot be assembled). One lag channel of width 1, horizon 1.
InitGen ==
    /\ InitLoader
    /\ \E e_train \in {{}, {3, 4}, {5, 3}}, o_train \in {{}, {5, 4}},
          e_val \in {{}, {6}}, o_test \in {{}, {7}},
          days \in {all_days, all_days \ {4}} :
         config = [sources |->
            [identity \in {"era5", "osisaf"} |->
               IF identity = "era5"
               THEN source(identity, {}, {}, {}, 1, {}, all_days, all_doys,
                           [no_dates EXCEPT !["train"] = e_train,
                                            !["val"] = e_val])
               ELSE source(identity, {"siconca"}, {}, {}, 1, {}, days,
                           all_doys,
                           [no_dates EXCEPT !["train"] = o_train,
                                            !["test"] = o_test])],
            missing_dates |-> <<>>]
    /\ var_lag = 1
    /\ var_lag_override = <<>>
    /\ loss_weight_days = FALSE
    /\ n_forecast_days = 1
    /\ output_batch_size \in 1..MaxBatch
    /\ workers \in 1..MaxWorkers
    /\ nan_files = {}

\* Configurations for the loop over batch(): as above, with fewer choices of
\* dates and with the batch size 0 among the sizes.
InitBatch ==
    /\ InitLoader
    /\ \E e_train \in {{}, {3, 4}}, o_train \in {{}, {5, 4}},
          e_val \in {{}, {6}},
          days \in {all_days, all_days \ {4}} :
         config = [sources |->
            [identity \in {"era5", "osisaf"} |->
               IF identity = "era5"
               THEN source(identity, {}, {}, {}, 1, {}, all_days, all_doys,
                           [no_dates EXCEPT !["train"] = e_train,
                                            !["val"] = e_val])
               ELSE source(identity, {"siconca"}, {}, {}, 1, {}, days,
                           all_doys,
                           [no_dates EXCEPT !["train"] = o_train])],
            missing_dates |-> <<>>]
    /\ var_lag = 1
    /\ var_lag_override = <<>>
    /\ loss_weight_days = FALSE
    /\ n_forecast_days = 1
    /\ output_batch_size \in 0..MaxBatch
    /\ workers \in 1..MaxWorkers
    /\ nan_files = {}

\* ----------------------------------------------------------- shard paths
RECURSIVE Digits(_)
\* The decimal digits of n.
Digits(n) == IF n < 10 THEN <<n>> ELSE Digits(n \div 10) \o <<n % 10>>

RECURSIVE ZeroPad(_)
\* "{:08}": zeros on the left up to eight digits.
ZeroPad(ds) == IF Len(ds) < 8 THEN ZeroPad(<<0>> \o ds) ELSE ds

\* self.get_data_var_folder(dataset): the split's own directory under the
\* loader's path.
get_data_var_folder(split) == <<"network_datasets", split>>

\* os.path.join(output_dir, "{:08}.tfrecord").format(batch_number)
tf_path(split, n) == <<get_data_var_folder(split), ZeroPad(Digits(n))>>

\* ---------------------------------------------------------------- actions
no_sample == [date |-> [kind |-> "none", day |-> 0], channels |-> <<>>,
              error |-> "", x |-> <<>>, y |-> <<>>, sample_weights |-> <<>>]

zero_counts == [el \in {splits[k] : k \in 1..Len(splits)} |-> 0]

\* __init__: load the configuration, plan the channels, parse the missing
\* dates.
IceNetDataLoader_init ==
    /\ pc = "new"
    /\ channels' = construct_channels.channels
    /\ channel_files' = construct_channels.channel_files
    /\ meta_channels' = construct_channels.meta_channels
    /\ missing_dates' = [k \in 1..Len(config.missing_dates) |->
                           strptime(config.missing_dates[k])]
    /\ pc' = "ready"
    /\ UNCHANGED <<args_vars, gen_vars, shards, manifest, sample>>

\* write_dataset_config_only(): count each split's dates, write the manifest.
\* The caller runs it instead of generate(), or after it.
write_dataset_config_only ==
    /\ pc \in {"ready", "configured", "done"}
    /\ pc' = IF pc = "ready" THEN "configured" ELSE pc
    /\ manifest' = <<write_dataset_config(
                     [el \in DOMAIN zero_counts |->
                        zero_counts[el] + Len(forecast_dates_of(el))])>>
    /\ UNCHANGED <<args_vars, plan_vars, gen_vars, shards, sample>>

\* IceNetDataLoader.generate_sample(date), for a date or a datetime.
IceNetDataLoader_generate_sample ==
    /\ pc = "ready"
    /\ \E kind \in {"date", "datetime"} :
       \E split \in DOMAIN zero_counts :
       \E k \in 1..Len(forecast_dates_of(split)) :
          LET date == [kind |-> kind, day |-> forecast_dates_of(split)[k].day]
              got == generate_sample(date, payload(date, list_order), nan_files)
          IN  sample' = [date |-> date, channels |-> channels,
                         error |-> got.error, x |-> got.x,
                         y |-> got.y, sample_weights |-> got.sample_weights]
    /\ pc' = "sampled"
    /\ UNCHANGED <<args_vars, plan_vars, gen_vars, shards, manifest>>

\* The channels dict with the widths ws given to the metadata channels.
with_meta_widths(chs, ws) ==
    [c \in 1..Len(chs) |->
       IF \E m \in 1..Len(meta_channels) : meta_channels[m] = chs[c][1]
       THEN <<chs[c][1],
              ws[CHOOSE m \in 1..Len(meta_channels) :
                   meta_channels[m] = chs[c][1]]>>
       ELSE chs[c]]

\* generate_sample(forecast_date, channels, ...) called as the module's
\* function, with the arguments generate() packages except that the caller
\* gives the metadata channels widths of its own.
generate_sample_call ==
    /\ pc = "ready"
    /\ \E split \in DOMAIN zero_counts :
       \E k \in 1..Len(forecast_dates_of(split)) :
       \E ws \in [1..Len(meta_channels) -> 1..MaxMetaWidth] :
          LET date == forecast_dates_of(split)[k]
              a == [payload(date, list_order) EXCEPT
                      !.channels = with_meta_widths(channels, ws)]
              got == generate_sample(date, a, nan_files)
          IN  sample' = [date |-> date, channels |-> a.channels,
                         error |-> got.error, x |-> got.x,
                         y |-> got.y, sample_weights |-> got.sample_weights]
    /\ pc' = "called"
    /\ UNCHANGED <<args_vars, plan_vars, gen_vars, shards, manifest>>

\* generate(): enter the pool's with-block and start on the first split.
\* The caller may run it again after a run that wrote its manifest.
generate ==
    /\ pc \in {"ready", "done"}
    /\ counts' = zero_counts
    /\ futures' = <<>>
    /\ dataset' = 1
    /\ batch_number' = 0
    /\ forecast_dates' = forecast_dates_of(splits[1])
    /\ i' = 0
    /\ pc' = "submitting"
    /\ UNCHANGED <<args_vars, plan_vars, shards, manifest, sample>>

\* batch_dates[i:i + num + 1]: a slice one date too long, which the batches
\* must not be.
batch_slice_overlapping(batch_dates, from, num) ==
    SubSeq(batch_dates, from + 1,
           IF from + num + 1 < Len(batch_dates) THEN from + num + 1
           ELSE Len(batch_dates))

\* batch(): batch_dates[i:i + num]
batch_slice(batch_dates, from, num) ==
    SubSeq(batch_dates, from + 1,
           IF from + num < Len(batch_dates) THEN from + num
           ELSE Len(batch_dates))

\* A turn of the loop that forgets "batch_number += 1": what the loop must
\* not do.
Submit_same_index ==
    /\ pc = "submitting"
    /\ i < Len(forecast_dates)
    /\ batch_number < MaxUnits
    /\ LET dates == batch_slice(forecast_dates, i, output_batch_size)
       IN  /\ \E orders \in [1..Len(dates) -> set_orders] :
                futures' = Append(futures,
                  [path |-> tf_path(splits[dataset], batch_number),
                   split |-> splits[dataset],
                   args |-> [k \in 1..Len(dates) |->
                               <<dates[k], payload(dates[k], orders[k])>>],
                   state |-> "pending",
                   done |-> 0,
                   error |-> "",
                   collected |-> FALSE])
           /\ counts' = [counts EXCEPT ![splits[dataset]] = @ + Len(dates)]
    /\ batch_number' = batch_number
    /\ i' = i + output_batch_size
    /\ UNCHANGED <<args_vars, plan_vars, pc, dataset, forecast_dates, shards,
                   manifest, sample>>

\* One turn of "for dates in batch(...)": package the batch's dates and
\* submit one unit of work.
Submit ==
    /\ pc = "submitting"
    /\ i < Len(forecast_dates)
    /\ batch_number < MaxUnits
    /\ LET dates == batch_slice(forecast_dates, i, output_batch_size)
       IN  /\ \E orders \in [1..Len(dates) -> set_orders] :
                futures' = Append(futures,
                  [path |-> tf_path(splits[dataset], batch_number),
                   split |-> splits[dataset],
                   args |-> [k \in 1..Len(dates) |->
                               <<dates[k], payload(dates[k], orders[k])>>],
                   state |-> "pending",
                   done |-> 0,
                   error |-> "",
                   collected |-> FALSE])
           /\ counts' = [counts EXCEPT ![splits[dataset]] = @ + Len(dates)]
    /\ batch_number' = batch_number + 1
    /\ i' = i + output_batch_size
    /\ UNCHANGED <<args_vars, plan_vars, pc, dataset, forecast_dates, shards,
                   manifest, sample>>

\* The generator's loop written "while i + num < len(batch_dates)", which
\* stops a batch early: what batch() must not do.
NextSplit_early ==
    /\ pc = "submitting"
    /\ i + output_batch_size >= Len(forecast_dates)
    /\ IF dataset < Len(splits)
       THEN /\ dataset' = dataset + 1
            /\ forecast_dates' = forecast_dates_of(splits[dataset + 1])
            /\ batch_number' = 0
            /\ i' = 0
            /\ pc' = pc
       ELSE /\ pc' = "collecting"
            /\ UNCHANGED <<dataset, forecast_dates, batch_number, i>>
    /\ UNCHANGED <<args_vars, plan_vars, counts, futures, shards, manifest,
                   sample>>

\* The generator is exhausted: go to the next split, or, after the last,
\* to the loop over as_completed(futures).
NextSplit ==
    /\ pc = "submitting"
    /\ i >= Len(forecast_dates)
    /\ IF dataset < Len(splits)
       THEN /\ dataset' = dataset + 1
            /\ forecast_dates' = forecast_dates_of(splits[dataset + 1])
            /\ batch_number' = 0
            /\ i' = 0
            /\ pc' = pc
       ELSE /\ pc' = "collecting"
            /\ UNCHANGED <<dataset, forecast_dates, batch_number, i>>
    /\ UNCHANGED <<args_vars, plan_vars, counts, futures, shards, manifest,
                   sample>>

finished(u) == futures[u].state \in {"done", "failed"}

\* A free pool process takes the oldest pending unit: generate_and_write
\* opens the shard file for writing.
StartUnit(u) ==
    /\ futures[u].state = "pending"
    /\ \A v \in 1..(u - 1) : futures[v].state # "pending"
    /\ Cardinality({v \in 1..Len(futures) : futures[v].state = "running"})
         < workers
    /\ futures' = [futures EXCEPT ![u].state = "running"]
    /\ shards' = [q \in DOMAIN shards \cup {futures[u].path} |->
                    IF q = futures[u].path THEN <<>> ELSE shards[q]]
    /\ UNCHANGED <<args_vars, plan_vars, pc, dataset, forecast_dates, i,
                   batch_number, counts, manifest, sample>>

\* One turn of generate_and_write's loop: assemble the next date's sample
\* and write its record, or raise what generate_sample raises.
StepUnit(u) ==
    /\ futures[u].state = "running"
    /\ futures[u].done < Len(futures[u].args)
    /\ LET arg == futures[u].args[futures[u].done + 1]
           got == generate_sample(arg[1], arg[2], nan_files)
       IN  IF got.error # ""
           THEN /\ futures' = [futures EXCEPT ![u].state = "failed",
                                              ![u].error = got.error]
                /\ UNCHANGED shards
           ELSE /\ futures' = [futures EXCEPT ![u].done = @ + 1]
                /\ shards' = [shards EXCEPT ![futures[u].path] =
                                Append(@, [x |-> got.x, y |-> got.y,
                                           sample_weights |->
                                             got.sample_weights])]
    /\ UNCHANGED <<args_vars, plan_vars, pc, dataset, forecast_dates, i,
                   batch_number, counts, manifest, sample>>

\* generate_and_write closes the shard and returns its path.
FinishUnit(u) ==
    /\ futures[u].state = "running"
    /\ futures[u].done = Len(futures[u].args)
    /\ futures' = [futures EXCEPT ![u].state = "done"]
    /\ UNCHANGED <<args_vars, plan_vars, pc, dataset, forecast_dates, i,
                   batch_number, counts, shards, manifest, sample>>

\* One turn of "for fut in as_completed(futures)": fut.result() returns the
\* path, or raises the unit's error out of the loop.
Collect(u) ==
    /\ pc = "collecting"
    /\ finished(u)
    /\ ~futures[u].collected
    /\ futures' = [futures EXCEPT ![u].collected = TRUE]
    /\ pc' = IF futures[u].state = "failed" THEN "aborting" ELSE pc
    /\ UNCHANGED <<args_vars, plan_vars, dataset, forecast_dates, i,
                   batch_number, counts, shards, manifest, sample>>

\* Every future has given its result: the with-block ends and the manifest
\* is written.
FinishGenerate ==
    /\ pc = "collecting"
    /\ \A u \in 1..Len(futures) : futures[u].collected
    /\ manifest' = <<write_dataset_config(counts)>>
    /\ pc' = "done"
    /\ UNCHANGED <<args_vars, plan_vars, gen_vars, shards, sample>>

\* with ProcessPoolExecutor(...) left by an error without waiting for the
\* units still running: what the pool's shutdown must not do.
AbortGenerate_without_waiting ==
    /\ pc = "aborting"
    /\ pc' = "raised"
    /\ UNCHANGED <<args_vars, plan_vars, gen_vars, shards, manifest, sample>>

\* An error is leaving the with-block: the pool's shutdown waits for every
\* submitted unit, then generate() raises.
AbortGenerate ==
    /\ pc = "aborting"
    /\ \A u \in 1..Len(futures) : finished(u)
    /\ pc' = "raised"
    /\ UNCHANGED <<args_vars, plan_vars, gen_vars, shards, manifest, sample>>

Next ==
    \/ IceNetDataLoader_init
    \/ write_dataset_config_only
    \/ IceNetDataLoader_generate_sample
    \/ generate_sample_call
    \/ generate
    \/ Submit
    \/ NextSplit
    \/ \E u \in 1..Len(futures) : StartUnit(u)
    \/ \E u \in 1..Len(futures) : StepUnit(u)
    \/ \E u \in 1..Len(futures) : FinishUnit(u)
    \/ \E u \in 1..Len(futures) : Collect(u)
    \/ FinishGenerate
    \/ AbortGenerate

SpecPlan == InitPlan /\ [][Next]_vars

SpecSample == InitSample /\ [][Next]_vars

SpecGen == InitGen /\ [][Next]_vars

SpecBatch == InitBatch /\ [][Next]_vars

\* ------------------------------------------------------------------ claims
\* Every record on disk and the sample the single-sample method returned.
produced_samples ==
    UNION {{shards[q][k] : k \in 1..Len(shards[q])} : q \in DOMAIN shards}
      \cup (IF pc = "sampled" /\ sample.error = ""
            THEN {[x |-> sample.x, y |-> sample.y,
                   sample_weights |-> sample.sample_weights]}
            ELSE {})

\* The configuration's field that declares a channel: its data format, or
\* the trend or metadata list.
declaring_field(name) ==
    IF Len(name) = 1 THEN "meta"
    ELSE IF name[2] = "linear_trend" THEN "linear_trends" ELSE name[2]

\* The channels a configuration declares.
declared_channels ==
    {<<v, f>> : v \in {"siconca", "tas", "cos"}, f \in {"abs", "anom"}}
      \cup {<<v, "linear_trend">> : v \in {"siconca", "tas", "cos"}}
      \cup {<<v>> : v \in {"siconca", "tas", "cos"}}

is_declared(name) ==
    \E identity \in DOMAIN config.sources :
       name[1] \in config.sources[identity][declaring_field(name)]

\* The place of a channel in the claimed order: its category (abs, anom,
\* trend, metadata), then the first source in sorted order that declares
\* it, then its variable.
order_key(name) ==
    << CASE declaring_field(name) = "abs" -> 1
         [] declaring_field(name) = "anom" -> 2
         [] declaring_field(name) = "linear_trends" -> 3
         [] OTHER -> 4,
       Rank(CHOOSE identity \in DOMAIN config.sources :
              /\ name[1] \in config.sources[identity][declaring_field(name)]
              /\ \A other \in DOMAIN config.sources :
                   name[1] \in config.sources[other][declaring_field(name)]
                     => ~StrLess(other, identity)),
       Rank(name[1]) >>

key_less(a, b) ==
    \/ a[1] < b[1]
    \/ a[1] = b[1] /\ a[2] < b[2]
    \/ a[1] = b[1] /\ a[2] = b[2] /\ a[3] < b[3]

\* C1: the planned channels are exactly the declared ones, each once, in
\* the order abs, anom, trend, metadata, within a category by source in
\* sorted order and within a source by variable in sorted order; the
\* sequence is therefore a function of the configuration alone.
C1_ChannelOrder ==
    pc # "new" =>
      /\ {channels[k][1] : k \in 1..Len(channels)}
           = {name \in declared_channels : is_declared(name)}
      /\ \A p, q \in 1..Len(channels) :
           p < q => key_less(order_key(channels[p][1]),
                             order_key(channels[q][1]))

\* C1 witness: a plan of all four categories in which a variable of the
\* first source precedes a smaller variable that only the second declares.
C1_Witness ==
    /\ pc = "ready"
    /\ \E p, q \in 1..Len(channels) :
         /\ p < q
         /\ channels[p][1] = <<"tas", "abs">>
         /\ channels[q][1] = <<"siconca", "abs">>
    /\ \E k \in 1..Len(channels) : channels[k][1] = <<"tas", "anom">>
    /\ \E k \in 1..Len(channels) : channels[k][1] = <<"siconca", "linear_trend">>
    /\ meta_channels # <<>>

\* The widths by role: every lag and trend channel's width, one per
\* metadata channel.
role_width_total ==
    SumSeq([k \in 1..Len(channels) |->
              IF is_meta_channel(channels[k][1]) THEN 1 ELSE channels[k][2]])

\* C2: the manifest's expanded channel list is as long as the widths by
\* role add up to, which is its num_channels and the size of the last axis
\* of every input tensor produced.
C2_ChannelCount ==
    /\ manifest # <<>> =>
         /\ Len(manifest[1].channels) = role_width_total
         /\ manifest[1].num_channels = role_width_total
    /\ \A r \in produced_samples :
         Cardinality(DOMAIN r.x) = role_width_total

\* C2 witness: a finished run with lag, trend and metadata channels, a
\* channel wider than one, a record on disk and the manifest.
C2_Witness ==
    /\ pc = "done"
    /\ manifest # <<>>
    /\ \E q \in DOMAIN shards : Len(shards[q]) > 0
    /\ meta_channels # <<>>
    /\ \E k \in 1..Len(channels) : is_trend(channels[k][1])
    /\ \E k \in 1..Len(channels) : channels[k][2] > 1

\* The calls of generate_sample that have ended: the records the units of
\* work wrote, the call a failed unit died in, and the single-sample
\* method's call; each with its date, its payload and what it gave.
calls ==
    UNION {{[date |-> futures[u].args[k][1], a |-> futures[u].args[k][2],
             by |-> "generate", error |-> "",
             x |-> shards[futures[u].path][k].x,
             y |-> shards[futures[u].path][k].y,
             sample_weights |-> shards[futures[u].path][k].sample_weights]
              : k \in 1..futures[u].done} : u \in 1..Len(futures)}
      \cup {[date |-> futures[u].args[futures[u].done + 1][1],
             a |-> futures[u].args[futures[u].done + 1][2],
             by |-> "generate", error |-> futures[u].error,
             x |-> <<>>, y |-> <<>>, sample_weights |-> <<>>]
              : u \in {v \in 1..Len(futures) : futures[v].state = "failed"}}
      \cup (IF pc = "sampled"
            THEN {[date |-> sample.date,
                   a |-> payload(sample.date, list_order),
                   by |-> "generate_sample", error |-> sample.error,
                   x |-> sample.x, y |-> sample.y,
                   sample_weights |-> sample.sample_weights]}
            ELSE {})

\* The first column of the k-th planned channel: the widths of the lag and
\* trend channels before it.
column_start(k) ==
    SumSeq([j \in 1..(k - 1) |->
              IF is_meta_channel(channels[j][1]) THEN 0 ELSE channels[j][2]])

\* The array of a channel's file for a date: the file loaded, or zeros
\* when the lookup finds none.
array_for(var_name, date) ==
    IF get_var_file(var_name, date, "DATE_FORMAT") = None
    THEN <<"zeros">>
    ELSE np_load(get_var_file(var_name, date, "DATE_FORMAT"))

\* The sub-channels of every lag and trend channel of x are in lag or lead
\* order, nearest first.
stacked_in_order(date, x) ==
    \A k \in 1..Len(channels) :
      ~is_meta_channel(channels[k][1]) =>
        \A n \in 1..channels[k][2] :
          x[column_start(k) + n - 1] =
            array_for(channels[k][1],
                      AddDays(date, IF is_trend(channels[k][1])
                                    THEN n ELSE 0 - n))

\* C3: every sample produced, by generate() and by the single-sample
\* method, holds for a lag channel the arrays of D-1, D-2, ... and for a
\* trend channel those of D+1, D+2, ... in its planned columns.
C3_StackedInOrder ==
    \A c \in calls : c.error = "" => stacked_in_order(c.date, c.x)

\* What holds of C3: the samples of the single-sample method are stacked in
\* order (generate()'s are not: it iterates a set of the dates).
C3_MethodStackedInOrder ==
    \A c \in calls :
      c.error = "" /\ c.by = "generate_sample"
        => stacked_in_order(c.date, c.x)

\* The first column of the k-th planned channel, counting every channel
\* before it with its width.
channel_column(k) == SumSeq([j \in 1..(k - 1) |-> channels[j][2]])

\* C4: an absent input file, of a lag, trend or metadata channel, never
\* makes assembly raise, and its column is all zero.
C4_AbsentIsZero ==
    \A c \in calls : \A k \in 1..Len(channels) :
      LET files == DictGet(c.a.var_files, channels[k][1])
      IN  IF is_meta_channel(channels[k][1])
          THEN files = None =>
                 /\ c.error # "TypeError(np.load)"
                 /\ c.error = "" => c.x[channel_column(k)] = <<"zeros">>
          ELSE \A n \in 1..Len(files) :
                 files[n][2] = None =>
                   /\ c.error # "TypeError(np.load)"
                   /\ c.error = "" =>
                        c.x[channel_column(k) + n - 1] = <<"zeros">>

\* What holds of C4: when no metadata file is absent, an absent file of a
\* lag or trend channel makes no load fail, and a sample that passes the
\* check of its targets has a zero slice in the column of the file's date.
C4_LagTrendAbsentIsZero ==
    \A c \in calls :
      (\A m \in 1..Len(meta_channels) :
          DictGet(c.a.var_files, meta_channels[m]) # None) =>
        \A k \in 1..Len(channels) :
          ~is_meta_channel(channels[k][1]) =>
            LET files == DictGet(c.a.var_files, channels[k][1])
            IN  \A n \in 1..Len(files) :
                  files[n][2] = None =>
                    /\ c.error \in {"", "TypeError(np.save)"}
                    /\ c.error = "" =>
                         c.x[channel_column(k) + n - 1] = <<"zeros">>

\* The weight slice a step carries when its day is not a missing date: the
\* month's mask, rescaled under loss-day-weighting.
mask_weight(day) ==
    IF loss_weight_days
    THEN rescale(astype(get_active_cell_mask(Month(day))))
    ELSE astype(get_active_cell_mask(Month(day)))

\* The calendar days the configuration lists as missing.
missing_days == {config.missing_dates[k] : k \in 1..Len(config.missing_dates)}

\* C5: in a sample of generate(), the weight slice of a step whose calendar
\* day is listed as missing is zero, and every other step carries its
\* month's mask.
C5_MissingDateZeroWeight ==
    \A c \in calls :
      c.error = "" /\ c.by = "generate" =>
        \A s \in 0..(n_forecast_days - 1) :
          c.sample_weights[s] =
            IF AddDays(c.date, s).day \in missing_days
            THEN zero_weight
            ELSE mask_weight(AddDays(c.date, s))

\* C6: no sample returned or written holds a position that is not-a-number
\* in the target and has a nonzero weight; a call that meets one raises,
\* and a unit of work that raised wrote no record for that date.
C6_NoNanWithWeight ==
    /\ \A c \in calls :
         c.error = "" =>
           \A s \in 0..(n_forecast_days - 1) :
             \A cell \in isnan(c.y[s], nan_files) :
               c.sample_weights[s][cell] = <<0, 1>>
    /\ \A u \in 1..Len(futures) :
         futures[u].state = "failed" =>
           Len(shards[futures[u].path]) = futures[u].done

\* C6 witness: a unit of work died in the check, and elsewhere a sample was
\* written that holds a not-a-number target under zero weight.
C6_Witness ==
    \E u \in 1..Len(futures) :
      /\ futures[u].state = "failed"
      /\ futures[u].error = "TypeError(np.save)"
      /\ Len(shards[futures[u].path]) = 0

\* Every target file of the call's horizon is absent.
targets_absent(c) ==
    \A s \in 0..(n_forecast_days - 1) :
      DictGet(c.a.output_files, AddDays(c.date, s)) = None

\* Every day of the call's horizon is a datetime that the configuration
\* lists as missing.
horizon_is_missing(c) ==
    \A s \in 0..(n_forecast_days - 1) :
      c.date.kind = "datetime" /\ AddDays(c.date, s).day \in missing_days

split_days(split) ==
    UNION {config.sources[identity].dates[split] :
             identity \in DOMAIN config.sources}

\* The units submitted for a split, in submission order.
split_units(split) == SelectSeq(futures, LAMBDA f : f.split = split)

\* The dates of a unit's batch, in the order of its payloads.
unit_dates(f) == [k \in 1..Len(f.args) |-> f.args[k][1]]

\* The batches of a split, concatenated in submission order.
submitted_dates(split) ==
    Flatten([u \in 1..Len(split_units(split)) |->
               unit_dates(split_units(split)[u])])

\* generate() has left the split's loop over its batches.
split_submitted(split) ==
    \/ pc \in {"collecting", "aborting", "raised", "done"}
    \/ pc = "submitting" /\ \E k \in 1..(dataset - 1) : splits[k] = split

\* C8: once generate() has submitted a split, the batches of its units,
\* concatenated in submission order, are the split's days, each once and
\* ascending; no batch is empty, every batch but the last has
\* output_batch_size dates and the last has no more; so there are as many
\* units as batches of that size.
C8_BatchPartition ==
    \A split \in DOMAIN zero_counts :
      split_submitted(split) =>
        LET all == submitted_dates(split)
            units == split_units(split)
        IN  /\ Len(all) = Cardinality(split_days(split))
            /\ {all[k].day : k \in 1..Len(all)} = split_days(split)
            /\ \A p, q \in 1..Len(all) : p < q => all[p].day < all[q].day
            /\ \A u \in 1..Len(units) :
                 /\ Len(units[u].args) >= 1
                 /\ Len(units[u].args) <= output_batch_size
                 /\ u < Len(units) =>
                      Len(units[u].args) = output_batch_size
            /\ (Len(units) - 1) * output_batch_size
                 < Cardinality(split_days(split))
                 \/ Len(units) = 0
            /\ Cardinality(split_days(split))
                 <= Len(units) * output_batch_size

\* C8's case: two sources list overlapping train dates, three distinct days
\* in all, cut into a batch of two and a last batch of one.
C8_Witness ==
    /\ pc = "collecting"
    /\ output_batch_size = 2
    /\ config.sources["era5"].dates["train"]
         \cap config.sources["osisaf"].dates["train"] # {}
    /\ Cardinality(split_days("train")) = 3
    /\ Len(split_units("train")) = 2
    /\ Len(split_units("train")[2].args) = 1

\* ---------------------------------------- generate(): failure and manifest
\* A failed unit keeps generate() from its manifest; when generate() has
\* raised, every submitted unit has finished and its shard is on disk with
\* the records it wrote; a run that completes has no failed unit.
C9_FailureKeepsManifestAway ==
    /\ (\E u \in 1..Len(futures) : futures[u].state = "failed") =>
         /\ pc \in {"submitting", "collecting", "aborting", "raised"}
         /\ manifest = <<>>
    /\ pc = "raised" =>
         /\ manifest = <<>>
         /\ \E u \in 1..Len(futures) : futures[u].state = "failed"
         /\ \A u \in 1..Len(futures) :
              /\ finished(u)
              /\ futures[u].path \in DOMAIN shards
              /\ Len(shards[futures[u].path]) = futures[u].done
    /\ pc = "done" =>
         \A u \in 1..Len(futures) : futures[u].state = "done"

\* Inside generate() the manifest changes only in the step that ends a run
\* whose every unit has completed without error.
C9_ManifestStep ==
    (manifest' # manifest /\ pc \in {"submitting", "collecting", "aborting"})
      => /\ pc = "collecting"
         /\ pc' = "done"
         /\ \A u \in 1..Len(futures) : futures[u].state = "done"

\* C9: the manifest is written by generate() only after every submitted
\* unit has completed successfully; after a unit's failure generate() can
\* only go on to raise, with the manifest unwritten and with every
\* submitted unit finished and its shard left on disk.
C9_ManifestOnlyAfterSuccess ==
    /\ []C9_FailureKeepsManifestAway
    /\ [][C9_ManifestStep]_vars

\* C9's case: generate() has raised for a failed unit, a unit submitted
\* after it has run to completion and its shard holds its records.
C9_Witness ==
    /\ pc = "raised"
    /\ manifest = <<>>
    /\ \E u, v \in 1..Len(futures) :
         /\ u < v
         /\ futures[u].state = "failed"
         /\ futures[v].state = "done"
         /\ Len(shards[futures[v].path]) = Len(futures[v].args)
         /\ Len(futures[v].args) >= 1

\* ------------------------------------------------ generate(): the counts
RECURSIVE records_on_disk(_)
\* The number of records in the shard files of a set of paths.
records_on_disk(paths) ==
    IF paths = {} THEN 0
    ELSE LET q == CHOOSE r \in paths : TRUE
         IN  Len(shards[q]) + records_on_disk(paths \ {q})

\* The shard files in a split's directory.
split_shards(split) ==
    {q \in DOMAIN shards : q[1] = get_data_var_folder(split)}

\* C10: a manifest, whichever operation wrote it, records for each split
\* the number of its distinct days, so a later write records the same
\* counts; after a successful generate() each unit's shard holds one record
\* of x, y and sample_weights per date of its batch, and the records of a
\* split's shards add up to the split's count.
C10_CountsAgree ==
    /\ manifest # <<>> =>
         \A split \in DOMAIN zero_counts :
            manifest[1].counts[split] = Cardinality(split_days(split))
    /\ pc = "done" =>
         /\ \A u \in 1..Len(futures) :
              /\ Len(shards[futures[u].path]) = Len(futures[u].args)
              /\ \A k \in 1..Len(shards[futures[u].path]) :
                   DOMAIN shards[futures[u].path][k]
                     = {"x", "y", "sample_weights"}
         /\ \A split \in DOMAIN zero_counts :
              records_on_disk(split_shards(split))
                = manifest[1].counts[split]

\* C10's case: a successful generate() over three train days, which two
\* sources list with a repeat, in two shards, and one val day.
C10_Witness ==
    /\ pc = "done"
    /\ output_batch_size = 2
    /\ config.sources["era5"].dates["train"]
         \cap config.sources["osisaf"].dates["train"] # {}
    /\ manifest[1].counts["train"] = 3
    /\ manifest[1].counts["val"] = 1
    /\ Cardinality(split_shards("train")) = 2
    /\ records_on_disk(split_shards("train")) = 3

\* ---------------------------------------------------------- the file lookup
\* The days a lookup is tried for: those with files and one day on each side.
lookup_days == (0 - MaxLag - 1)..(6 + MaxLag + MaxHorizon + 1)

\* The places in a channel's registered list whose path holds the fragment
\* <hemisphere>/<base variable>/<formatted date>.npy.
matches(name, date, date_format) ==
    {k \in 1..Len(DictGet(channel_files, name)) :
       LET potential == DictGet(channel_files, name)[k]
       IN  /\ potential[2] = hemisphere_str[1]
           /\ potential[3] = name[1]
           /\ potential[4] = strftime(date, date_format)}

\* The lookups of a constructed loader: for every registered channel, every
\* date and both date formats the result is the registered path of least
\* index that holds the fragment, and None when no registered path holds
\* it.
first_match_or_none ==
    \A k \in 1..Len(channel_files) :
      \A day \in lookup_days :
        \A date_format \in {"DATE_FORMAT", "%j"} :
          LET name == channel_files[k][1]
              date == [kind |-> "date", day |-> day]
              hits == matches(name, date, date_format)
              got == get_var_file(name, date, date_format)
          IN  IF hits = {}
              THEN got = None
              ELSE \E first \in hits :
                     /\ \A h \in hits : first <= h
                     /\ got = DictGet(channel_files, name)[first]

\* C11: _get_var_file returns the first registered path, in the order of
\* the channel's list, that holds the fragment, and None when none does; so
\* it is when the loader is constructed, and the registered lists, on which
\* alone the lookup depends, never change afterwards.
C11_FirstMatchOrNone ==
    /\ [](pc = "ready" => first_match_or_none)
    /\ [][pc # "new" => channel_files' = channel_files]_vars

\* C11's case: a channel that two sources declare has two registered paths
\* for an input day of a sample, the payload holds the first of them, and
\* the lookup for a day without files gave None.
C11_Witness ==
    \E c \in calls :
      \E k \in 1..Len(channels) :
        /\ ~is_meta_channel(channels[k][1])
        /\ LET files == DictGet(c.a.var_files, channels[k][1])
               hits == matches(channels[k][1], files[1][1], "DATE_FORMAT")
           IN  /\ Cardinality(hits) = 2
               /\ \E first \in hits :
                    /\ \A h \in hits : first <= h
                    /\ first # Len(DictGet(channel_files, channels[k][1]))
                    /\ files[1][2]
                         = DictGet(channel_files, channels[k][1])[first]
        /\ get_var_file(channels[k][1],
                        [kind |-> "date", day |-> 0 - MaxLag - 1],
                        "DATE_FORMAT") = None

\* ------------------------------------------------ metadata channel widths
\* Some metadata channel of the channels dict is wider than 1.
wide_meta(chs) ==
    \E c \in 1..Len(chs) : is_meta_channel(chs[c][1]) /\ chs[c][2] > 1

\* Nothing else is wrong with the call: with the planned widths the sample
\* of its date assembles.
otherwise_assembles ==
    generate_sample(sample.date, payload(sample.date, list_order),
                    nan_files).error = ""

\* C12: a call of generate_sample whose channels give a metadata channel a
\* width above 1 returns no sample, and raises the RuntimeError of that
\* test when nothing else is wrong with the call; the planner gives every
\* metadata channel width 1, and no call with metadata widths of 1, by the
\* method, by a unit of generate() or by a caller, raises that error.
C12_MetaWidth ==
    /\ (pc = "called" /\ wide_meta(sample.channels)) =>
         /\ sample.error # ""
         /\ sample.x = <<>>
         /\ otherwise_assembles => sample.error = "RuntimeError"
    /\ (pc \in {"called", "sampled"} /\ ~wide_meta(sample.channels)) =>
         sample.error # "RuntimeError"
    /\ ~wide_meta(channels)
    /\ \A u \in 1..Len(futures) : futures[u].error # "RuntimeError"

\* C12's case: a caller passed a metadata channel of width 2 with all the
\* files of the date there, and the call raised the RuntimeError.
C12_Witness ==
    /\ pc = "called"
    /\ wide_meta(sample.channels)
    /\ otherwise_assembles
    /\ sample.error = "RuntimeError"

\* ------------------------------------------------------ the diagnostic dump
\* The check of a call's targets finds a not-a-number position with a
\* positive weight.
detects_nan(c) ==
    nan_check_fails(
      sample_output(c.date, c.a.n_forecast_days, c.a.output_files),
      sample_weights_of(c.date, c.a.n_forecast_days, c.a.loss_weight_days,
                        c.a.masks, c.a.missing_dates),
      c.a.n_forecast_days, nan_files)

\* C13: a call whose check finds such a position has written the diagnostic
\* file of its date, and the error that reaches the caller is the
\* RuntimeError.
C13_DumpThenRuntimeError ==
    \A c \in calls :
      detects_nan(c) =>
        /\ generate_sample(c.date, c.a, nan_files).dumped
        /\ c.error = "RuntimeError"

\* What holds of C13: such a call ends in the TypeError of np.save, which is
\* given a file name and no array, and no file is written.
C13_TypeErrorWithoutDump ==
    \A c \in calls :
      detects_nan(c) =>
        /\ ~generate_sample(c.date, c.a, nan_files).dumped
        /\ c.error = "TypeError(np.save)"

\* ------------------------------------------------------ the shards' paths
RECURSIVE digits_value(_)
\* The number a sequence of decimal digits writes.
digits_value(ds) ==
    IF ds = <<>> THEN 0
    ELSE 10 * digits_value(SubSeq(ds, 1, Len(ds) - 1)) + ds[Len(ds)]

\* C14: in a run of generate() no two submitted units have the same path;
\* the j-th unit of a split has the split's directory and the 8-digit
\* zero-padded index j - 1, and units of different splits have different
\* directories.
C14_DistinctShardPaths ==
    /\ \A u, v \in 1..Len(futures) :
         /\ u # v => futures[u].path # futures[v].path
         /\ futures[u].split # futures[v].split =>
              futures[u].path[1] # futures[v].path[1]
    /\ \A split \in DOMAIN zero_counts :
         \A j \in 1..Len(split_units(split)) :
           LET path == split_units(split)[j].path
           IN  /\ path[1] = get_data_var_folder(split)
               /\ Len(path[2]) = 8
               /\ \A d \in 1..8 : path[2][d] \in 0..9
               /\ digits_value(path[2]) = j - 1

\* C14's case: two units of one split run at the same time, on the shards
\* of index 0 and 1, and a unit of another split is submitted.
C14_Witness ==
    \E u, v, w \in 1..Len(futures) :
      /\ u # v
      /\ futures[u].split = futures[v].split
      /\ futures[u].state = "running" /\ futures[v].state = "running"
      /\ futures[u].done = 1 /\ futures[v].done = 1
      /\ digits_value(futures[u].path[2]) = 0
      /\ digits_value(futures[v].path[2]) = 1
      /\ futures[w].split # futures[u].split

\* ------------------------------------------------------ the column cursor
\* The column cursor after the loop over the non-metadata channels.
cursor_after_lag_and_trend ==
    SumSeq([j \in 1..Len(channels) |->
              IF is_meta_channel(channels[j][1]) THEN 0 ELSE channels[j][2]])

\* Some metadata variable is declared by more than one source.
meta_declared_twice ==
    \E a, b \in DOMAIN config.sources :
      a # b /\ config.sources[a].meta \cap config.sources[b].meta # {}

\* C15: for every configuration the planner accepts, the cursor after the
\* non-metadata channels plus the length of the metadata list is
\* num_channels, and no call of generate_sample by the loader addresses a
\* column outside 0..num_channels-1.
C15_ColumnsExactlyOnce ==
    pc # "new" =>
      /\ cursor_after_lag_and_trend + Len(meta_channels) = num_channels
      /\ \A c \in calls : c.error # "IndexError"

\* What holds of C15: so it is when no metadata variable is declared by two
\* sources, and then every column of a sample is outside no channel's range.
C15_HoldsWithoutRepeatedMeta ==
    (pc # "new" /\ ~meta_declared_twice) =>
      /\ cursor_after_lag_and_trend + Len(meta_channels) = num_channels
      /\ \A c \in calls :
           /\ c.error # "IndexError"
           /\ c.error = "" => DOMAIN c.x = 0..(num_channels - 1)

\* ------------------------------------------------- the worker's payloads
\* The payload a has every key generate_sample looks up for the date: a
\* mask for each day of the horizon; a file entry for each metadata
\* channel; for each other channel of width w a dict of w entries, keyed by
\* the w days before the date, or after it for a trend channel.
payload_complete(date, a) ==
    /\ \A s \in 0..(a.n_forecast_days - 1) :
         DictHas(a.masks, AddDays(date, s))
    /\ \A m \in 1..Len(a.meta_channels) :
         DictHas(a.var_files, a.meta_channels[m])
    /\ \A c \in 1..Len(a.channels) :
         LET name == a.channels[c][1]
             w == a.channels[c][2]
         IN  (~\E m \in 1..Len(a.meta_channels) : a.meta_channels[m] = name)
               => /\ DictHas(a.var_files, name)
                  /\ Len(DictGet(a.var_files, name)) = w
                  /\ {DictGet(a.var_files, name)[n][1] : n \in 1..w}
                       = {AddDays(date, IF is_trend(name) THEN n ELSE 0 - n)
                            : n \in 1..w}

\* C16: every payload generate() has submitted is complete for its date.
C16_PayloadComplete ==
    \A u \in 1..Len(futures) :
      \A k \in 1..Len(futures[u].args) :
        payload_complete(futures[u].args[k][1], futures[u].args[k][2])

\* C16's case: a unit has written the sample of a payload with the masks of
\* a horizon of two days, a metadata entry, and the dicts of a lag channel
\* and a trend channel of width MaxLag.
C16_Witness ==
    \E u \in 1..Len(futures) :
      /\ futures[u].state = "done"
      /\ Len(shards[futures[u].path]) = 1
      /\ LET a == futures[u].args[1][2]
         IN  /\ Len(a.masks) = 2
             /\ Len(a.meta_channels) = 1
             /\ a.var_files[1][2] # None
             /\ \E c, d \in 1..Len(a.channels) :
                  /\ is_trend(a.channels[c][1])
                  /\ ~is_trend(a.channels[d][1])
                  /\ Len(DictGet(a.var_files, a.channels[c][1])) = MaxLag
                  /\ Len(DictGet(a.var_files, a.channels[d][1])) = MaxLag

\* ------------------------------------------------- the loop over batch()
\* The splits that have dates, in the order generate() visits them.
splits_with_dates ==
    {k \in 1..Len(splits) : split_days(splits[k]) # {}}

\* ceil(n / size) for size >= 1.
ceil_div(n, size) == (n + size - 1) \div size

\* C17: with a batch size of at least 1 the loop over a split's n dates
\* never yields more than ceil(n / size) batches and has yielded exactly
\* that many when generate() leaves it; with batch size 0 and a split that
\* has dates, generate() never leaves the loop of the first such split:
\* the index i stays 0, every batch yielded is empty, and generate() never
\* reaches the loop over the futures nor the manifest.
C17_BatchLoop ==
    /\ output_batch_size >= 1 =>
         \A split \in DOMAIN zero_counts :
           /\ Len(split_units(split))
                <= ceil_div(Cardinality(split_days(split)),
                            output_batch_size)
           /\ split_submitted(split) =>
                Len(split_units(split))
                  = ceil_div(Cardinality(split_days(split)),
                             output_batch_size)
    /\ (output_batch_size = 0 /\ splits_with_dates # {}) =>
         /\ pc \in {"new", "ready", "sampled", "called", "configured",
                    "submitting"}
         /\ pc = "submitting" =>
              /\ \A k \in splits_with_dates : dataset <= k
              /\ i = 0
              /\ \A u \in 1..Len(futures) : futures[u].args = <<>>
              /\ (dataset \in splits_with_dates) => i < Len(forecast_dates)
         /\ pc # "configured" => manifest = <<>>

\* C17's case: with batch size 0 the loop over a split of three dates has
\* yielded MaxUnits empty batches, some already run, and is where it began.
C17_Witness ==
    /\ output_batch_size = 0
    /\ pc = "submitting"
    /\ Len(forecast_dates) = 3
    /\ i = 0
    /\ Len(futures) = MaxUnits
    /\ \A u \in 1..Len(futures) : futures[u].args = <<>>
    /\ \E u \in 1..Len(futures) : futures[u].state = "done"
    /\ manifest = <<>>

====
